---- MODULE Spec2Model ----
(***************************************************************************)
(* A model of the tone/overlay core of rpg_core.js:                        *)
(*   ToneFilter   (js/Debug/R0_Tone.js, lines 8-150)                       *)
(*   ToneSprite   (js/Debug/R0_Tone.js, lines 159-246)                     *)
(*   ScreenSprite (js/Debug/R0_ScreenSprite.js)                            *)
(*   Number.prototype.clamp, Utils.rgbToCssColor (rpg_core.js head)        *)
(*                                                                         *)
(* JavaScript values.  An argument of an operation is a pair <<tag, n>>:   *)
(*   <<"num", h>>    the finite number h / Den                             *)
(*   <<"inf", 1>>, <<"inf", -1>>   +Infinity, -Infinity                    *)
(*   <<"nan", 0>>    NaN                                                   *)
(*   <<"undef", 0>>  undefined (a missing argument)                        *)
(* The fields of the two sprites hold values of the same shape.            *)
(*                                                                         *)
(* The matrix of ToneFilter holds JavaScript Numbers that are the results  *)
(* of floating-point arithmetic.  They are modelled as binary floating     *)
(* point numbers <<m, e>> (value m * 2^e) with a significand of Prec bits  *)
(* and round-to-nearest-even, the rounding of IEEE-754 binary64; the       *)
(* exponent is unbounded (no overflow, no subnormals) and there is one     *)
(* zero.  Prec is smaller than the 53 bits of a binary64 so that every     *)
(* intermediate fits TLC's 32-bit integers.                                *)
(***************************************************************************)
EXTENDS Integers, Sequences, FiniteSets, TLC

(* ------------------------------ bounds -------------------------------- *)

\* bits of significand of the modelled floating-point numbers
Prec == 12
\* a finite argument is a multiple of 1/Den
Den == 2
\* adjust* calls on a ToneFilter since its last reset
MaxAdjust == 3

(* ------------------------- integer helpers ---------------------------- *)

Abs(n) == IF n < 0 THEN -n ELSE n

Sign(n) == IF n < 0 THEN -1 ELSE 1

Pow2[n \in 0..30] == IF n = 0 THEN 1 ELSE 2 * Pow2[n - 1]

\* number of bits of n >= 0 (0 for 0)
BitLen[n \in Nat] == IF n = 0 THEN 0 ELSE 1 + BitLen[n \div 2]

(* --------------- floating point: the Number arithmetic ---------------- *)

FZero == <<0, 0>>

\* n * 2^e rounded to Prec bits, ties to even; n is an integer
FRound(n, e) ==
    IF n = 0 THEN FZero
    ELSE LET a == Abs(n)
             L == BitLen[a]
         IN  IF L <= Prec
             THEN <<Sign(n) * a * Pow2[Prec - L], e - (Prec - L)>>
             ELSE LET s    == L - Prec
                      q    == a \div Pow2[s]
                      rem  == a % Pow2[s]
                      half == Pow2[s - 1]
                      up   == rem > half \/ (rem = half /\ q % 2 = 1)
                      q1   == IF up THEN q + 1 ELSE q
                  IN  IF q1 = Pow2[Prec]
                      THEN <<Sign(n) * Pow2[Prec - 1], e + s + 1>>
                      ELSE <<Sign(n) * q1, e + s>>

FromInt(n) == FRound(n, 0)

FOne == FromInt(1)

FNeg(x) == IF x[1] = 0 THEN FZero ELSE <<-x[1], x[2]>>

\* x + y: exact sum, rounded once
FAdd(x, y) ==
    IF x[1] = 0 THEN y
    ELSE IF y[1] = 0 THEN x
    ELSE LET hi == IF x[2] >= y[2] THEN x ELSE y
             lo == IF x[2] >= y[2] THEN y ELSE x
             d  == hi[2] - lo[2]
         IN  IF d > Prec + 2 THEN hi
             ELSE FRound(hi[1] * Pow2[d] + lo[1], lo[2])

FSub(x, y) == FAdd(x, FNeg(y))

\* x * y: exact product, rounded once
FMul(x, y) == FRound(x[1] * y[1], x[2] + y[2])

\* a / b for integers a, b with b > 0: the exact quotient, rounded once
FDivInt(a, b) ==
    IF a = 0 THEN FZero
    ELSE LET s   == Prec + 2 + BitLen[b] - BitLen[Abs(a)]
             q   == (Abs(a) * Pow2[s]) \div b
             rem == (Abs(a) * Pow2[s]) % b
             n   == 2 * q + (IF rem = 0 THEN 0 ELSE 1)
         IN  FRound(Sign(a) * n, -(s + 1))

\* the integer nearest to x (ties up), for |x| < 2^30
FNearest(x) ==
    IF x[2] >= 0 THEN x[1] * Pow2[x[2]]
    ELSE IF -x[2] > Prec + 1 THEN 0
    ELSE (2 * x[1] + Pow2[-x[2]]) \div Pow2[1 - x[2]]

(* -------------------------- JavaScript values -------------------------- *)

Num(n) == <<"num", n * Den>>

UNDEF == <<"undef", 0>>

NAN == <<"nan", 0>>

PINF == <<"inf", 1>>

NINF == <<"inf", -1>>

IsNum(x) == x[1] = "num"

\* x < y for two values that are numbers or infinities
ValLess(x, y) ==
    IF x[1] = "inf" THEN x[2] = -1 /\ y # x
    ELSE IF y[1] = "inf" THEN y[2] = 1
    ELSE x[2] < y[2]

\* x || 0: undefined, NaN and 0 are falsy
OrZero(x) == IF x[1] \in {"undef", "nan"} THEN Num(0) ELSE x

\* Math.round: the nearest integer, a tie going up
MathRound(x) ==
    IF IsNum(x) THEN <<"num", Den * ((2 * x[2] + Den) \div (2 * Den))>> ELSE x

MathMax(x, y) ==
    IF x[1] = "nan" \/ y[1] = "nan" THEN NAN
    ELSE IF ValLess(x, y) THEN y ELSE x

MathMin(x, y) ==
    IF x[1] = "nan" \/ y[1] = "nan" THEN NAN
    ELSE IF ValLess(y, x) THEN y ELSE x

\* Number.prototype.clamp
ClampNoUpper(x, min, max) == MathMax(x, min)

Clamp(x, min, max) == MathMin(MathMax(x, min), max)

\* x / k for a finite number x and an integer k > 0, as a floating-point number
NumDiv(x, k) == FDivInt(x[2], Den * k)

(* ------------------------------ ToneFilter ---------------------------- *)

Identity ==
    <<FOne,  FZero, FZero, FZero,
      FZero, FOne,  FZero, FZero,
      FZero, FZero, FOne,  FZero,
      FZero, FZero, FZero, FOne>>

\* the decimal literal 0.kkk of the source
Lit(k) == FDivInt(k, 1000)

\* Math.cos(value * Math.PI) and Math.sin(value * Math.PI) at the quarter
\* turns: the correctly rounded cosine and sine of the exact angle
QuarterTurn(value) == FNearest(FMul(value, FromInt(2))) % 4

CosPi(value) ==
    CASE QuarterTurn(value) = 0 -> FOne
      [] QuarterTurn(value) = 2 -> FNeg(FOne)
      [] OTHER -> FZero

SinPi(value) ==
    CASE QuarterTurn(value) = 1 -> FOne
      [] QuarterTurn(value) = 3 -> FNeg(FOne)
      [] OTHER -> FZero

\* element [n * 4 + j] of a 16-element array
At(a, n, j) == a[n * 4 + j + 1]

\* the inner loop over n: val += matrix[n * 4 + j] * temp[n]
RECURSIVE DotFrom(_, _, _, _, _)
DotFrom(matrix, temp, j, n, val) ==
    IF n = 4 THEN val
    ELSE DotFrom(matrix, temp, j, n + 1,
                 FAdd(val, FMul(At(matrix, n, j), temp[n + 1])))

\* one pass of the loop over i: temp is row i of value, then row i is
\* overwritten entry by entry
RowStep(value, matrix, i) ==
    LET temp == <<At(value, i, 0), At(value, i, 1), At(value, i, 2), At(value, i, 3)>>
        Step(v, j) == [v EXCEPT ![i * 4 + j + 1] = DotFrom(matrix, temp, j, 0, FZero)]
    IN  Step(Step(Step(Step(value, 0), 1), 2), 3)

\* the standard product matrix * value, the operands of _multiplyMatrix swapped
MultiplyMatrixSwapped(value, matrix) ==
    [k \in 1..16 |->
        LET i == (k - 1) \div 4
            j == (k - 1) % 4
        IN  DotFrom(value, <<At(matrix, i, 0), At(matrix, i, 1),
                            At(matrix, i, 2), At(matrix, i, 3)>>, j, 0, FZero)]

\* ToneFilter.prototype._multiplyMatrix: the new contents of uniforms.matrix.value
MultiplyMatrix(value, matrix) ==
    RowStep(RowStep(RowStep(RowStep(value, matrix, 0), matrix, 1), matrix, 2), matrix, 3)

\* the matrix adjustHue builds from value = degrees / 180
HueMatrix(value) ==
    LET c == CosPi(value)
        s == SinPi(value)
        a00 == FSub(FAdd(Lit(213), FMul(c, Lit(787))), FMul(s, Lit(213)))
        a01 == FSub(FSub(Lit(715), FMul(c, Lit(715))), FMul(s, Lit(715)))
        a02 == FAdd(FSub(Lit(72), FMul(c, Lit(72))), FMul(s, Lit(928)))
        a10 == FAdd(FSub(Lit(213), FMul(c, Lit(213))), FMul(s, Lit(143)))
        a11 == FAdd(FAdd(Lit(715), FMul(c, Lit(285))), FMul(s, Lit(140)))
        a12 == FSub(FSub(Lit(72), FMul(c, Lit(72))), FMul(s, Lit(283)))
        a20 == FSub(FSub(Lit(213), FMul(c, Lit(213))), FMul(s, Lit(787)))
        a21 == FAdd(FSub(Lit(715), FMul(c, Lit(715))), FMul(s, Lit(715)))
        a22 == FAdd(FAdd(Lit(72), FMul(c, Lit(928))), FMul(s, Lit(72)))
    IN  <<a00,   a01,   a02,   FZero,
          a10,   a11,   a12,   FZero,
          a20,   a21,   a22,   FZero,
          FZero, FZero, FZero, FOne>>

\* the matrix adjustSaturation builds from value = clamped / 255
SaturationMatrix(value) ==
    LET a == FAdd(FOne, value)
        a00 == FAdd(Lit(213), FMul(Lit(787), a))
        a01 == FSub(Lit(715), FMul(Lit(715), a))
        a02 == FSub(Lit(72), FMul(Lit(72), a))
        a10 == FSub(Lit(213), FMul(Lit(213), a))
        a11 == FAdd(Lit(715), FMul(Lit(285), a))
        a12 == FSub(Lit(72), FMul(Lit(72), a))
        a20 == FSub(Lit(213), FMul(Lit(213), a))
        a21 == FSub(Lit(715), FMul(Lit(715), a))
        a22 == FAdd(Lit(72), FMul(Lit(928), a))
    IN  <<a00,   a01,   a02,   FZero,
          a10,   a11,   a12,   FZero,
          a20,   a21,   a22,   FZero,
          FZero, FZero, FZero, FOne>>

\* the matrix adjustTone builds from r, g, b = clamped / 255
ToneMatrixRow(r, g, b) ==
    <<FOne,  FZero, FZero, FZero,
      FZero, FOne,  FZero, FZero,
      FZero, FZero, FOne,  FZero,
      r,     g,     b,     FOne>>

ToneMatrix(r, g, b) ==
    <<FOne,  FZero, FZero, r,
      FZero, FOne,  FZero, g,
      FZero, FZero, FOne,  b,
      FZero, FZero, FZero, FOne>>

\* the normalised argument of adjustSaturation and adjustTone
Strength(x) == NumDiv(Clamp(OrZero(x), Num(-255), Num(255)), 255)

\* adjustHue(value): the matrix handed to _multiplyMatrix, <<>> when none is
HueAdjustment(value) ==
    LET v == NumDiv(OrZero(value), 180)
    IN  IF v # FZero THEN HueMatrix(v) ELSE <<>>

SaturationAdjustment(value) ==
    LET v == Strength(value)
    IN  IF v # FZero THEN SaturationMatrix(v) ELSE <<>>

ToneAdjustment(r, g, b) ==
    LET r1 == Strength(r)
        g1 == Strength(g)
        b1 == Strength(b)
    IN  IF r1 # FZero \/ g1 # FZero \/ b1 # FZero THEN ToneMatrix(r1, g1, b1) ELSE <<>>

\* the fragment shader, gl_FragColor = texture2D(...) * matrix, on one opaque
\* pixel <<r, g, b>> of 8-bit channels: each channel of the result is a row of
\* the row-major array times (r/255, g/255, b/255, 1), stored as 8 bits
FilterPixel(m, px) ==
    LET v == <<FDivInt(px[1], 255), FDivInt(px[2], 255), FDivInt(px[3], 255), FOne>>
        Out(i) == FAdd(FAdd(FAdd(FMul(At(m, i, 0), v[1]), FMul(At(m, i, 1), v[2])),
                            FMul(At(m, i, 2), v[3])), FMul(At(m, i, 3), v[4]))
        Byte(x) == IF x[1] < 0 THEN 0
                   ELSE IF FNearest(FMul(x, FromInt(255))) > 255 THEN 255
                   ELSE FNearest(FMul(x, FromInt(255)))
    IN  [c \in 1..3 |-> Byte(Out(c - 1))]

(* ------------------------- Utils.rgbToCssColor ------------------------ *)

\* a CSS colour string is <<notation, r, g, b>>: 'rgb(r,g,b)' is
\* <<"rgb", r, g, b>>, '#ffffff' is <<"#", 255, 255, 255>>, '' is <<"", 0, 0, 0>>
CssWhite == <<"#", 255, 255, 255>>

CssEmpty == <<"", 0, 0, 0>>

\* the decimal digits of an integral number
Digits(x) == x[2] \div Den

RgbToCssColor(r, g, b) ==
    <<"rgb", Digits(MathRound(r)), Digits(MathRound(g)), Digits(MathRound(b))>>

(* ------------------------------ ToneSprite ---------------------------- *)

\* -x
ValNeg(x) == <<x[1], -x[2]>>

\* a number used as a condition: 0 is falsy
Truthy(x) == x # Num(0)

\* ToneSprite.prototype.clear: the four fields
ClearedTone == [red |-> Num(0), green |-> Num(0), blue |-> Num(0), gray |-> Num(0)]

\* ToneSprite.prototype.setTone: the four fields
SetToneGrayAsChannel(r, g, b, gray) ==
    [red   |-> Clamp(MathRound(OrZero(r)), Num(-255), Num(255)),
     green |-> Clamp(MathRound(OrZero(g)), Num(-255), Num(255)),
     blue  |-> Clamp(MathRound(OrZero(b)), Num(-255), Num(255)),
     gray  |-> Clamp(MathRound(OrZero(gray)), Num(-255), Num(255))]

SetToneResult(r, g, b, gray) ==
    [red   |-> Clamp(MathRound(OrZero(r)), Num(-255), Num(255)),
     green |-> Clamp(MathRound(OrZero(g)), Num(-255), Num(255)),
     blue  |-> Clamp(MathRound(OrZero(b)), Num(-255), Num(255)),
     gray  |-> Clamp(MathRound(OrZero(gray)), Num(0), Num(255))]

\* one full-screen fillRect: the composite operation, alpha and fill style
\* the context holds when it is issued
Pass(op, alpha, style) == [op |-> op, alpha |-> alpha, style |-> style]

\* lines 213-218: the saturation pass
SaturationPasses(t, canSat) ==
    IF canSat /\ ValLess(Num(0), t.gray)
    THEN <<Pass("saturation", NumDiv(t.gray, 255), CssWhite)>>
    ELSE <<>>

\* lines 219-227: the additive pass
LighterPasses(t) ==
    LET r1 == MathMax(Num(0), t.red)
        g1 == MathMax(Num(0), t.green)
        b1 == MathMax(Num(0), t.blue)
    IN  IF Truthy(r1) \/ Truthy(g1) \/ Truthy(b1)
        THEN <<Pass("lighter", FOne, RgbToCssColor(r1, g1, b1))>>
        ELSE <<>>

\* lines 229-242: the three subtractive passes
SubtractPassesNoInvertBack(t) ==
    LET r2 == MathMax(Num(0), ValNeg(t.red))
        g2 == MathMax(Num(0), ValNeg(t.green))
        b2 == MathMax(Num(0), ValNeg(t.blue))
    IN  IF Truthy(r2) \/ Truthy(g2) \/ Truthy(b2)
        THEN <<Pass("difference", FOne, CssWhite),
               Pass("lighter", FOne, RgbToCssColor(r2, g2, b2))>>
        ELSE <<>>

SubtractPasses(t) ==
    LET r2 == MathMax(Num(0), ValNeg(t.red))
        g2 == MathMax(Num(0), ValNeg(t.green))
        b2 == MathMax(Num(0), ValNeg(t.blue))
    IN  IF Truthy(r2) \/ Truthy(g2) \/ Truthy(b2)
        THEN <<Pass("difference", FOne, CssWhite),
               Pass("lighter", FOne, RgbToCssColor(r2, g2, b2)),
               Pass("difference", FOne, CssWhite)>>
        ELSE <<>>

\* lines 228-243: the subtractive passes need the difference blend
DifferencePassesUngated(t, canDiff) == SubtractPasses(t)

DifferencePasses(t, canDiff) == IF canDiff THEN SubtractPasses(t) ELSE <<>>

\* the fillRect calls of one _renderCanvas of a visible sprite, in order
RenderPasses(t, canSat, canDiff) ==
    SaturationPasses(t, canSat) \o LighterPasses(t) \o DifferencePasses(t, canDiff)

\* the 2D context: what fillRect does to one pixel <<r, g, b>> of an opaque
\* canvas under the three composite operations the sprite uses
Min(a, b) == IF a < b THEN a ELSE b

Max(a, b) == IF a > b THEN a ELSE b

Luma(px) == (30 * px[1] + 59 * px[2] + 11 * px[3] + 50) \div 100

\* source-over of blended onto dst at the given alpha
Mix(dst, blended, alpha) ==
    FNearest(FAdd(FromInt(dst), FMul(alpha, FromInt(blended - dst))))

FillRect(px, pass) ==
    LET src == <<pass.style[2], pass.style[3], pass.style[4]>>
    IN  CASE pass.op = "lighter" ->
               [c \in 1..3 |-> Min(255, px[c] + Mix(0, src[c], pass.alpha))]
          [] pass.op = "difference" ->
               [c \in 1..3 |-> Mix(px[c], Abs(px[c] - src[c]), pass.alpha)]
          [] pass.op = "saturation" ->
               [c \in 1..3 |-> Mix(px[c], Luma(px), pass.alpha)]

RECURSIVE FillAllPasses(_, _)
FillAllPasses(px, passes) ==
    IF passes = <<>> THEN px
    ELSE FillAllPasses(FillRect(px, Head(passes)), Tail(passes))

\* the state of the 2D context the sprite writes: the transform, the
\* composite operation, the alpha and the fill style
CtxAfterPasses(ctx, passes) ==
    LET last == passes[Len(passes)]
    IN  [transform |-> "world",
         globalCompositeOperation |->
            IF passes = <<>> THEN ctx.globalCompositeOperation ELSE last.op,
         globalAlpha |-> FOne,
         fillStyle |-> IF passes = <<>> THEN ctx.fillStyle ELSE last.style]

\* line 205: whether _renderCanvas draws at all
ShouldRenderAlways == TRUE

(* ------------------------------ ScreenSprite -------------------------- *)

\* a !== b
StrictNotEqual(a, b) == a # b \/ a[1] = "nan" \/ b[1] = "nan"

\* lines 27-30 of initialize: the colour fields before setBlack is called
UnsetColor(bitmap) ==
    [red |-> Num(-1), green |-> Num(-1), blue |-> Num(-1),
     colorText |-> CssEmpty, bitmap |-> bitmap]

\* line 77 of setColor: whether the call recomputes and repaints
ColorDiffers(s, r, g, b) ==
    \/ StrictNotEqual(s.red, r)
    \/ StrictNotEqual(s.green, g)
    \/ StrictNotEqual(s.blue, b)

\* lines 78-85 of setColor: the fields and the bitmap after a repaint
RepaintedNoClamp(s, r, g, b) ==
    LET r1 == MathRound(OrZero(r))
        g1 == MathRound(OrZero(g))
        b1 == MathRound(OrZero(b))
    IN  [red |-> r1, green |-> g1, blue |-> b1,
         colorText |-> RgbToCssColor(r1, g1, b1),
         bitmap |-> RgbToCssColor(r1, g1, b1)]

Repainted(s, r, g, b) ==
    LET r1 == Clamp(MathRound(OrZero(r)), Num(0), Num(255))
        g1 == Clamp(MathRound(OrZero(g)), Num(0), Num(255))
        b1 == Clamp(MathRound(OrZero(b)), Num(0), Num(255))
    IN  [red |-> r1, green |-> g1, blue |-> b1,
         colorText |-> RgbToCssColor(r1, g1, b1),
         bitmap |-> RgbToCssColor(r1, g1, b1)]

\* ScreenSprite.prototype.setColor: the colour fields and the bitmap after
\* the call, and the number of _bitmap.fillAll calls it made
SetColorResult(s, r, g, b) ==
    IF ColorDiffers(s, r, g, b)
    THEN [color |-> Repainted(s, r, g, b), fills |-> 1]
    ELSE [color |-> s, fills |-> 0]

\* the floating-point NaN
FNaN == <<"NaN">>

\* the opacity setter: whether value.clamp can be called at all
HasClamp(value) == value[1] # "undef"

\* the opacity setter: the alpha it stores
OpacityAlpha(value) ==
    LET c == Clamp(value, Num(0), Num(255))
    IN  IF c[1] = "nan" THEN FNaN ELSE NumDiv(c, 255)

(* ------------------------------- state -------------------------------- *)

VARIABLES
    matrix,      \* ToneFilter: uniforms.matrix.value, 16 numbers, row-major
    fhist,       \* ToneFilter: the last two adjust* calls since the last reset,
                 \*   latest first: [op, args, before, adj]; before is the matrix
                 \*   the call found, adj the matrix it handed to
                 \*   _multiplyMatrix (<<>> when it handed none)
    nAdjust,     \* ToneFilter: adjust* calls since the last reset
    tone,        \* ToneSprite: [red, green, blue, gray] (_red, ...) and the
                 \*   DisplayObject fields [visible, alpha]
    tlast,       \* ToneSprite: the last call, [op, args]
    frame,       \* ToneSprite: <<>>, or the one record of the _renderCanvas call
                 \*   made since the sprite last changed: what it was given
                 \*   (the sprite, the capabilities, the context, the pixel) and
                 \*   what it did (the fills, the context calls, the context and
                 \*   the pixel it left)
    color,       \* ScreenSprite: [red, green, blue, colorText] (_red, ...) and
                 \*   bitmap, the colour of the last _bitmap.fillAll
    alpha,       \* ScreenSprite: alpha
    shist,       \* ScreenSprite: the last two calls, latest first:
                 \*   [op, args, before, fills]; before is color as the call
                 \*   found it, fills the number of fillAll calls it made
    error        \* the outcome of the last call: "none", or the exception thrown

fvars == <<matrix, fhist, nAdjust>>

tvars == <<tone, tlast, frame>>

svars == <<color, alpha, shist>>

vars == <<matrix, fhist, nAdjust, tone, tlast, frame, color, alpha, shist, error>>

(* ------------------------------- inputs ------------------------------- *)

\* degrees handed to adjustHue
HueArgs == {UNDEF, Num(90), Num(-180)}

\* values handed to adjustSaturation
SaturationArgs == {UNDEF, Num(-255), PINF}

\* triples handed to adjustTone
ToneArgs ==
    { <<UNDEF, UNDEF, UNDEF>>,
      <<Num(1), Num(0), UNDEF>>,
      <<Num(-1), Num(0), NAN>>,
      <<Num(300), Num(-300), Num(51)>>,
      <<Num(-300), Num(300), Num(-51)>> }

\* a number with a fractional part: n + 1/Den
Frac(n) == <<"num", n * Den + 1>>

\* (r, g, b, gray) handed to setTone: missing, out of range, not finite,
\* fractional and in-range arguments
SetToneArgs ==
    { <<UNDEF, UNDEF, UNDEF, UNDEF>>,
      <<Num(300), Num(-300), Num(0), Num(400)>>,
      <<Num(255), Num(0), Num(0), Num(0)>>,
      <<Num(-255), Num(-255), Num(-255), Num(0)>>,
      <<NINF, PINF, NAN, NAN>>,
      <<Frac(-101), Frac(68), Num(0), Num(-5)>>,
      <<Num(0), Num(0), Num(-1), Frac(127)>>,
      <<Num(68), Num(68), Num(68), PINF>>,
      <<Num(-40), UNDEF, Num(0), NINF>>,
      <<Num(0), Num(0), Num(200), Num(0)>>,
      <<Num(-255), Num(255), Num(-100), UNDEF>>,
      <<Num(0), Num(0), Num(0), Num(128)>> }

\* the pixel of the scene a ToneSprite is composited onto
Pixels == {<<0, 0, 0>>, <<255, 255, 255>>, <<100, 200, 1>>, <<254, 55, 128>>}

\* DisplayObject.alpha
AlphaArgs == {Num(0), Num(1)}

\* the 2D context as the drawing before the sprite left it
Contexts ==
    { [transform |-> "identity", globalCompositeOperation |-> "source-over",
       globalAlpha |-> FOne, fillStyle |-> <<"#", 0, 0, 0>>],
      [transform |-> "other", globalCompositeOperation |-> "lighter",
       globalAlpha |-> FDivInt(1, 2), fillStyle |-> <<"rgb", 1, 2, 3>>] }

\* (r, g, b) handed to setColor: missing, out of range, not finite,
\* fractional and in-range arguments
SetColorArgs ==
    { <<UNDEF, UNDEF, UNDEF>>,
      <<Num(0), Num(0), Num(0)>>,
      <<Num(255), Num(255), Num(255)>>,
      <<Num(300), Num(0), Num(0)>>,
      <<Num(255), Num(0), Num(0)>>,
      <<Num(-7), Num(128), PINF>>,
      <<Num(0), Frac(0), Num(255)>>,
      <<NAN, Num(1), NINF>>,
      <<Num(10), Num(20), Num(30)>> }

\* values assigned to opacity
OpacityArgs == {UNDEF, NAN, Num(300), Num(128)}

(* ------------------------- ToneFilter: operations --------------------- *)

\* the matrix after a call that built adj (<<>>: it returned without composing)
Composed(adj) == IF adj = <<>> THEN matrix ELSE MultiplyMatrix(matrix, adj)

\* fhist after a call
Recorded(op, args, adj) ==
    <<[op |-> op, args |-> args, before |-> matrix, adj |-> adj]>>
        \o SubSeq(fhist, 1, IF Len(fhist) > 0 THEN 1 ELSE 0)

\* ToneFilter.prototype.reset (and the state initialize leaves)
Reset ==
    /\ matrix' = Identity
    /\ fhist' = <<>>
    /\ nAdjust' = 0
    /\ error' = "none"
    /\ UNCHANGED <<tvars, svars>>

AdjustHue ==
    \E value \in HueArgs :
        /\ nAdjust < MaxAdjust
        /\ matrix' = Composed(HueAdjustment(value))
        /\ fhist' = Recorded("adjustHue", <<value>>, HueAdjustment(value))
        /\ nAdjust' = nAdjust + 1
        /\ error' = "none"
        /\ UNCHANGED <<tvars, svars>>

AdjustSaturation ==
    \E value \in SaturationArgs :
        /\ nAdjust < MaxAdjust
        /\ matrix' = Composed(SaturationAdjustment(value))
        /\ fhist' = Recorded("adjustSaturation", <<value>>, SaturationAdjustment(value))
        /\ nAdjust' = nAdjust + 1
        /\ error' = "none"
        /\ UNCHANGED <<tvars, svars>>

AdjustTone ==
    \E t \in ToneArgs :
        /\ nAdjust < MaxAdjust
        /\ matrix' = Composed(ToneAdjustment(t[1], t[2], t[3]))
        /\ fhist' = Recorded("adjustTone", t, ToneAdjustment(t[1], t[2], t[3]))
        /\ nAdjust' = nAdjust + 1
        /\ error' = "none"
        /\ UNCHANGED <<tvars, svars>>

(* ------------------------- ToneSprite: operations --------------------- *)

\* the four tone fields replaced, the DisplayObject fields kept
WithTone(t) == [tone EXCEPT !.red = t.red, !.green = t.green,
                            !.blue = t.blue, !.gray = t.gray]

Clear ==
    /\ tone' = WithTone(ClearedTone)
    /\ tlast' = [op |-> "clear", args |-> <<>>]
    /\ frame' = <<>>
    /\ error' = "none"
    /\ UNCHANGED <<fvars, svars>>

SetTone ==
    \E a \in SetToneArgs :
        /\ tone' = WithTone(SetToneResult(a[1], a[2], a[3], a[4]))
        /\ tlast' = [op |-> "setTone", args |-> a]
        /\ frame' = <<>>
        /\ error' = "none"
        /\ UNCHANGED <<fvars, svars>>

\* the renderer's owner sets DisplayObject.visible and DisplayObject.alpha
SetVisible ==
    \E v \in BOOLEAN :
        /\ tone' = [tone EXCEPT !.visible = v]
        /\ tlast' = [op |-> "visible", args |-> <<v>>]
        /\ frame' = <<>>
        /\ UNCHANGED <<fvars, svars, error>>

SetAlpha ==
    \E a \in AlphaArgs :
        /\ tone' = [tone EXCEPT !.alpha = a]
        /\ tlast' = [op |-> "alpha", args |-> <<a>>]
        /\ frame' = <<>>
        /\ UNCHANGED <<fvars, svars, error>>

\* line 205: whether _renderCanvas draws at all
ShouldRender == tone.visible

\* ToneSprite.prototype._renderCanvas on a context in state ctx over a
\* scene whose pixel is px
RenderCanvas ==
    \E ctx \in Contexts, px \in Pixels, canSat \in BOOLEAN, canDiff \in BOOLEAN :
        LET passes == IF ShouldRender THEN RenderPasses(tone, canSat, canDiff) ELSE <<>>
            saved  == ctx
            inside == CtxAfterPasses(ctx, passes)
            calls  == IF ShouldRender
                      THEN <<"save", "setTransform">>
                               \o [k \in 1..Len(passes) |-> "fillRect"]
                               \o <<"restore">>
                      ELSE <<>>
        IN  /\ frame' = <<[tone |-> tone, canSat |-> canSat, canDiff |-> canDiff,
                           ctxBefore |-> ctx, scene |-> px,
                           passes |-> passes, calls |-> calls,
                           ctxInside |-> IF ShouldRender THEN inside ELSE ctx,
                           ctxAfter |-> IF ShouldRender THEN saved ELSE ctx,
                           screen |-> FillAllPasses(px, passes)]>>
            /\ tlast' = [op |-> "_renderCanvas", args |-> <<>>]
            /\ error' = "none"
            /\ UNCHANGED <<tone, fvars, svars>>

(* ------------------------ ScreenSprite: operations -------------------- *)

\* shist after a call
Called(op, args, fills) ==
    <<[op |-> op, args |-> args, before |-> color, fills |-> fills]>>
        \o SubSeq(shist, 1, IF Len(shist) > 0 THEN 1 ELSE 0)

\* ScreenSprite.prototype.initialize: opacity = 0, the colour unset, setBlack
Initialize ==
    LET res == SetColorResult(UnsetColor(CssEmpty), Num(0), Num(0), Num(0))
    IN  /\ alpha' = OpacityAlpha(Num(0))
        /\ color' = res.color
        /\ shist' = <<[op |-> "initialize", args |-> <<>>,
                       before |-> UnsetColor(CssEmpty), fills |-> res.fills]>>
        /\ error' = "none"
        /\ UNCHANGED <<fvars, tvars>>

SetColor ==
    \E a \in SetColorArgs :
        LET res == SetColorResult(color, a[1], a[2], a[3])
        IN  /\ color' = res.color
            /\ shist' = Called("setColor", a, res.fills)
            /\ error' = "none"
            /\ UNCHANGED <<alpha, fvars, tvars>>

SetBlack ==
    LET res == SetColorResult(color, Num(0), Num(0), Num(0))
    IN  /\ color' = res.color
        /\ shist' = Called("setBlack", <<>>, res.fills)
        /\ error' = "none"
        /\ UNCHANGED <<alpha, fvars, tvars>>

SetWhite ==
    LET res == SetColorResult(color, Num(255), Num(255), Num(255))
    IN  /\ color' = res.color
        /\ shist' = Called("setWhite", <<>>, res.fills)
        /\ error' = "none"
        /\ UNCHANGED <<alpha, fvars, tvars>>

\* the opacity setter: undefined has no clamp method, the call throws
SetOpacity ==
    \E value \in OpacityArgs :
        /\ IF HasClamp(value)
           THEN alpha' = OpacityAlpha(value) /\ error' = "none"
           ELSE alpha' = alpha /\ error' = "TypeError"
        /\ shist' = Called("opacity", <<value>>, 0)
        /\ UNCHANGED <<color, fvars, tvars>>

(* ---------------------------- specifications -------------------------- *)

Init ==
    /\ matrix = Identity
    /\ fhist = <<>>
    /\ nAdjust = 0
    /\ tone = [red |-> Num(0), green |-> Num(0), blue |-> Num(0), gray |-> Num(0),
               visible |-> TRUE, alpha |-> Num(1)]
    /\ tlast = [op |-> "initialize", args |-> <<>>]
    /\ frame = <<>>
    /\ color = SetColorResult(UnsetColor(CssEmpty), Num(0), Num(0), Num(0)).color
    /\ alpha = OpacityAlpha(Num(0))
    /\ shist = <<[op |-> "initialize", args |-> <<>>,
                  before |-> UnsetColor(CssEmpty),
                  fills |-> SetColorResult(UnsetColor(CssEmpty),
                                           Num(0), Num(0), Num(0)).fills]>>
    /\ error = "none"

NextFilter ==
    \/ Reset
    \/ AdjustHue
    \/ AdjustSaturation
    \/ AdjustTone

NextTone ==
    \/ Clear
    \/ SetTone
    \/ SetVisible
    \/ SetAlpha
    \/ RenderCanvas

NextScreen ==
    \/ Initialize
    \/ SetColor
    \/ SetBlack
    \/ SetWhite
    \/ SetOpacity

SpecFilter == Init /\ [][NextFilter]_vars

SpecTone == Init /\ [][NextTone]_vars

SpecScreen == Init /\ [][NextScreen]_vars

(* ------------------------------- claims ------------------------------- *)

\* the integers lo..hi as values
Integral(lo, hi) == {Num(k) : k \in lo..hi}

\* the textbook product x * y of two row-major 4x4 matrices
Product(x, y) ==
    [k \in 1..16 |->
        LET i == (k - 1) \div 4
            j == (k - 1) % 4
        IN  FAdd(FAdd(FAdd(FMul(At(x, i, 0), At(y, 0, j)), FMul(At(x, i, 1), At(y, 1, j))),
                      FMul(At(x, i, 2), At(y, 2, j))), FMul(At(x, i, 3), At(y, 3, j)))]

FourthRow == <<matrix[13], matrix[14], matrix[15], matrix[16]>>

FourthColumn == <<matrix[4], matrix[8], matrix[12], matrix[16]>>

\* C1 as stated: after any sequence of adjustHue, adjustSaturation and
\* adjustTone calls, the 4th row (entries 12..15) and the 4th column (entries
\* 3, 7, 11, 15) of the matrix both equal [0,0,0,1].
C1_RowAndColumnFixed ==
    /\ FourthRow = <<FZero, FZero, FZero, FOne>>
    /\ FourthColumn = <<FZero, FZero, FZero, FOne>>

\* C1 amended: after any sequence of adjustHue, adjustSaturation and
\* adjustTone calls the 4th row (entries 12..15) equals [0,0,0,1].  (The 4th
\* column does not: adjustTone puts its offsets into entries 3, 7 and 11.)
C1_FourthRowFixed == FourthRow = <<FZero, FZero, FZero, FOne>>

\* C1 witness: two composing calls, the last an adjustTone, have left offsets
\* in the 4th column.
C1_Witness ==
    /\ Len(fhist) = 2
    /\ fhist[1].op = "adjustTone" /\ fhist[1].adj # <<>>
    /\ fhist[2].op = "adjustSaturation" /\ fhist[2].adj # <<>>
    /\ FourthColumn # <<FZero, FZero, FZero, FOne>>

\* C5 as stated: a composing adjustment leaves the running matrix equal to
\* the product A * M of the adjustment matrix A (on the left) and the matrix M
\* the call found.
C5_IncomingTimesCurrent ==
    (Len(fhist) > 0 /\ fhist[1].adj # <<>>)
        => matrix = Product(fhist[1].adj, fhist[1].before)

\* C5 amended: a composing adjustment leaves the running matrix equal to the
\* product M * A of the matrix M the call found (on the left) and the
\* adjustment matrix A.
C5_CurrentTimesIncoming ==
    (Len(fhist) > 0 /\ fhist[1].adj # <<>>)
        => matrix = Product(fhist[1].before, fhist[1].adj)

\* C5 witness: an adjustment was composed into a matrix that prior
\* adjustments had changed, and the two orders of the product differ.
C5_Witness ==
    /\ Len(fhist) = 2
    /\ fhist[1].adj # <<>>
    /\ fhist[1].before # Identity
    /\ Product(fhist[1].before, fhist[1].adj) # Product(fhist[1].adj, fhist[1].before)

\* the argument of adjustTone as the call uses it: missing is 0, then clamped
ToneArg(x) ==
    CASE x[1] \in {"undef", "nan"} -> 0
      [] x[1] = "inf" -> 255 * Den * x[2]
      [] x[2] > 255 * Den -> 255 * Den
      [] x[2] < -255 * Den -> -255 * Den
      [] OTHER -> x[2]

\* the last two calls were adjustTone(r, g, b) and then adjustTone(-r, -g, -b)
ToneThenInverse ==
    /\ Len(fhist) = 2
    /\ fhist[1].op = "adjustTone"
    /\ fhist[2].op = "adjustTone"
    /\ \A c \in 1..3 : ToneArg(fhist[1].args[c]) = -ToneArg(fhist[2].args[c])

\* C6 as stated: adjustTone(r, g, b) followed by adjustTone(-r, -g, -b) leaves
\* the running matrix equal to the matrix M the first call found.
C6_ToneRoundTrip == ToneThenInverse => matrix = fhist[2].before

\* C6 amended: adjustTone(r, g, b) followed by adjustTone(-r, -g, -b) restores
\* every entry of M outside the offset column (entries 3, 7, 11), and restores
\* an offset entry that was 0 in M; an offset entry that was not 0 comes
\* back only up to the rounding of the two additions.
C6_ToneRoundTripUpToOffsets ==
    ToneThenInverse =>
        \A k \in 1..16 :
            (k \notin {4, 8, 12} \/ fhist[2].before[k] = FZero)
                => matrix[k] = fhist[2].before[k]

\* C6 witness: a composing adjustTone and its inverse were applied to a matrix
\* that a prior saturation adjustment had changed.
C6_Witness ==
    /\ ToneThenInverse
    /\ fhist[1].adj # <<>>
    /\ fhist[2].adj # <<>>
    /\ fhist[2].before # Identity
    /\ nAdjust = 3

\* the three stored channels of a ScreenSprite colour
Channels(c) == <<c.red, c.green, c.blue>>

\* C2: setColor regenerates the string and repaints only when a stored
\* channel changes value; the second of two consecutive setColor calls with
\* the same arguments repaints nothing.
C2_RepaintOnlyOnChange ==
    (Len(shist) > 0 /\ shist[1].op = "setColor") =>
        /\ shist[1].fills = 1 => Channels(shist[1].before) # Channels(color)
        /\ (Len(shist) = 2 /\ shist[2].op = "setColor" /\ shist[2].args = shist[1].args)
               => shist[1].fills = 0

\* C4: no public operation called with a missing or out-of-range argument
\* throws.
C4_NeverThrows == error = "none"

\* C10: after initialize and any setColor, setBlack, setWhite calls the stored
\* channels are integers in [0,255], _colorText is rgbToCssColor of them and is
\* the colour last handed to fillAll; initialize leaves black after one repaint.
C10_ColorInvariant ==
    /\ color.red \in Integral(0, 255)
    /\ color.green \in Integral(0, 255)
    /\ color.blue \in Integral(0, 255)
    /\ color.colorText = <<"rgb", Digits(color.red), Digits(color.green), Digits(color.blue)>>
    /\ color.bitmap = color.colorText
    /\ shist[1].op = "initialize" =>
           /\ shist[1].fills = 1
           /\ Channels(color) = <<Num(0), Num(0), Num(0)>>
           /\ color.bitmap = <<"rgb", 0, 0, 0>>

\* C10 witness: setColor(-7, 128, Infinity) has stored (0, 128, 255).
C10_Witness ==
    /\ shist[1].op = "setColor"
    /\ shist[1].args = <<Num(-7), Num(128), PINF>>
    /\ Channels(color) = <<Num(0), Num(128), Num(255)>>
    /\ color.bitmap = <<"rgb", 0, 128, 255>>

\* what setTone stores for an argument: missing or NaN is 0, the nearest
\* integer (a tie going up), limited to lo..hi
Stored(x, lo, hi) ==
    CASE x[1] \in {"undef", "nan"} -> Num(Max(lo, Min(hi, 0)))
      [] x[1] = "inf" -> IF x[2] = 1 THEN Num(hi) ELSE Num(lo)
      [] OTHER -> Num(Max(lo, Min(hi, (2 * x[2] + Den) \div (2 * Den))))

\* C7: the tone fields are integers, _red, _green, _blue in [-255,255] and
\* _gray in [0,255]; setTone stores its rounded, then clamped arguments,
\* whatever the state was (setTone(300,-300,0,400) stores (255,-255,0,255));
\* clear stores (0,0,0,0).
C7_ToneState ==
    /\ tone.red \in Integral(-255, 255)
    /\ tone.green \in Integral(-255, 255)
    /\ tone.blue \in Integral(-255, 255)
    /\ tone.gray \in Integral(0, 255)
    /\ tlast.op = "setTone" =>
           /\ tone.red = Stored(tlast.args[1], -255, 255)
           /\ tone.green = Stored(tlast.args[2], -255, 255)
           /\ tone.blue = Stored(tlast.args[3], -255, 255)
           /\ tone.gray = Stored(tlast.args[4], 0, 255)
    /\ (tlast.op = "setTone" /\ tlast.args = <<Num(300), Num(-300), Num(0), Num(400)>>) =>
           <<tone.red, tone.green, tone.blue, tone.gray>>
               = <<Num(255), Num(-255), Num(0), Num(255)>>
    /\ tlast.op \in {"clear", "initialize"} =>
           <<tone.red, tone.green, tone.blue, tone.gray>> = <<Num(0), Num(0), Num(0), Num(0)>>

\* C7 witness: setTone(-Infinity, Infinity, NaN, NaN), called on a sprite whose
\* tone was not zero, has stored (-255, 255, 0, 0).
C7_Witness ==
    /\ tlast.op = "setTone"
    /\ tlast.args = <<NINF, PINF, NAN, NAN>>
    /\ <<tone.red, tone.green, tone.blue, tone.gray>> = <<Num(-255), Num(255), Num(0), Num(0)>>

\* a _renderCanvas call issued no fill and left the context and the pixel as
\* they were
NoFillNoChange(f) ==
    /\ f.passes = <<>>
    /\ f.ctxAfter = f.ctxBefore
    /\ f.screen = f.scene

\* C3 as stated: _renderCanvas issues no fill and changes nothing on the
\* context whenever the sprite is not visible or its alpha is 0.
C3_NoOpWhenHiddenOrTransparent ==
    (frame # <<>> /\ (~frame[1].tone.visible \/ frame[1].tone.alpha = Num(0)))
        => NoFillNoChange(frame[1])

\* C3 amended: _renderCanvas issues no fill and changes nothing on the
\* context (it does not call it at all) whenever the sprite is not visible;
\* the alpha of the sprite is not consulted.
C3_NoOpWhenHidden ==
    (frame # <<>> /\ ~frame[1].tone.visible) =>
        /\ NoFillNoChange(frame[1])
        /\ frame[1].calls = <<>>
        /\ frame[1].ctxInside = frame[1].ctxBefore

\* C3 witness: a sprite that is not visible, with a tone that would need all
\* five fills on a context that has both blends, was rendered.
C3_Witness ==
    /\ frame # <<>>
    /\ ~frame[1].tone.visible
    /\ frame[1].canSat /\ frame[1].canDiff
    /\ frame[1].tone.red = Num(255) /\ frame[1].tone.green = Num(-255)
    /\ frame[1].tone.gray = Num(255)
    /\ frame[1].ctxBefore.transform = "other"

\* the larger of n and 0
Pos(n) == IF n > 0 THEN n ELSE 0

\* the fills C9 lists for the tone (r, g, b, gray) of a rendered sprite
ListedPasses(f) ==
    LET r == Digits(f.tone.red)
        g == Digits(f.tone.green)
        b == Digits(f.tone.blue)
        gray == Digits(f.tone.gray)
    IN  (IF f.canSat /\ gray > 0
         THEN <<[op |-> "saturation", alpha |-> FDivInt(gray, 255), style |-> <<"#", 255, 255, 255>>]>>
         ELSE <<>>)
        \o (IF <<Pos(r), Pos(g), Pos(b)>> # <<0, 0, 0>>
            THEN <<[op |-> "lighter", alpha |-> FOne, style |-> <<"rgb", Pos(r), Pos(g), Pos(b)>>]>>
            ELSE <<>>)
        \o (IF f.canDiff /\ <<Pos(-r), Pos(-g), Pos(-b)>> # <<0, 0, 0>>
            THEN <<[op |-> "difference", alpha |-> FOne, style |-> <<"#", 255, 255, 255>>],
                   [op |-> "lighter", alpha |-> FOne,
                    style |-> <<"rgb", Pos(-r), Pos(-g), Pos(-b)>>],
                   [op |-> "difference", alpha |-> FOne, style |-> <<"#", 255, 255, 255>>]>>
            ELSE <<>>)

\* C9: the fills of one _renderCanvas of a visible sprite are, in order, the
\* saturation fill (iff the blend is available and gray > 0), the lighter fill
\* of the positive parts (iff one is not 0), and difference, lighter of the
\* negative parts, difference (iff the blend is available and one is not 0).
\* So a zero tone issues no fill, no blend is used without its capability, and
\* difference fills come as a pair around exactly one lighter fill.
C9_PassSequence ==
    (frame # <<>> /\ frame[1].tone.visible) =>
        LET f == frame[1]
            n == Len(f.passes)
        IN  /\ f.passes = ListedPasses(f)
            /\ Len(f.calls) = n + 3
            /\ (<<f.tone.red, f.tone.green, f.tone.blue, f.tone.gray>>
                    = <<Num(0), Num(0), Num(0), Num(0)>>) => n = 0
            /\ \A k \in 1..n :
                   /\ f.passes[k].op = "difference" => f.canDiff
                   /\ f.passes[k].op = "saturation" => f.canSat /\ k = 1
                   /\ f.passes[k].op = "difference" =>
                          \/ k + 2 = n /\ f.passes[k + 1].op = "lighter"
                                      /\ f.passes[k + 2].op = "difference"
                          \/ k = n /\ f.passes[k - 1].op = "lighter"
                                   /\ f.passes[k - 2].op = "difference"

\* C9 witness: a visible sprite with tone (255, -255, 0) and gray 255 was
\* rendered with both blends and issued all five fills.
C9_Witness ==
    /\ frame # <<>>
    /\ frame[1].tone.visible
    /\ frame[1].canSat /\ frame[1].canDiff
    /\ frame[1].tone.red = Num(255) /\ frame[1].tone.green = Num(-255)
    /\ frame[1].tone.gray = Num(255)
    /\ Len(frame[1].passes) = 5

\* p + t limited to 0..255
Offset(p, t) == Max(0, Min(255, p + t))

\* the matrix of a fresh ToneFilter after adjustTone(r, g, b)
FilterAfterTone(r, g, b) ==
    IF ToneAdjustment(r, g, b) = <<>> THEN Identity
    ELSE MultiplyMatrix(Identity, ToneAdjustment(r, g, b))

\* C8: with gray = 0, a visible sprite and the difference blend, the fills
\* leave each channel of a pixel p at clamp(p + tone, 0, 255), which is what
\* the colour matrix of adjustTone(r, g, b) makes of that pixel; so
\* setTone(255,0,0,0) turns black into red and setTone(-255,-255,-255,0) turns
\* white into black.
C8_CompositorMatchesFilter ==
    (frame # <<>> /\ frame[1].tone.visible /\ frame[1].canDiff
                  /\ frame[1].tone.gray = Num(0)) =>
        LET f == frame[1]
            t == <<Digits(f.tone.red), Digits(f.tone.green), Digits(f.tone.blue)>>
        IN  /\ \A c \in 1..3 : f.screen[c] = Offset(f.scene[c], t[c])
            /\ f.screen = FilterPixel(FilterAfterTone(f.tone.red, f.tone.green, f.tone.blue),
                                      f.scene)
            /\ (t = <<255, 0, 0>> /\ f.scene = <<0, 0, 0>>) => f.screen = <<255, 0, 0>>
            /\ (t = <<-255, -255, -255>> /\ f.scene = <<255, 255, 255>>)
                   => f.screen = <<0, 0, 0>>

\* C8 witness: tone (-255, 255, -100), gray 0, was composited over the pixel
\* (100, 200, 1) with the difference blend and left (0, 255, 0).
C8_Witness ==
    /\ frame # <<>>
    /\ frame[1].tone.visible /\ frame[1].canDiff
    /\ <<frame[1].tone.red, frame[1].tone.green, frame[1].tone.blue, frame[1].tone.gray>>
           = <<Num(-255), Num(255), Num(-100), Num(0)>>
    /\ frame[1].scene = <<100, 200, 1>>
    /\ frame[1].screen = <<0, 255, 0>>

====
